---- MODULE Spec2Model ----
(***************************************************************************)
(* createSelectiveContext: the store of one Provider activation (data,     *)
(* subscribers, get, set, subscribe), the optional updateContextCallback,  *)
(* and the consumers bound to it through useContext(selector).             *)
(*                                                                         *)
(* JavaScript objects live in a heap: an object is a function from its     *)
(* property names to values, a value is a primitive or a reference to a    *)
(* heap object, and referential equality is equality of values.  The heap  *)
(* only grows: every object literal, every spread and every JSON.parse     *)
(* allocates.                                                              *)
(*                                                                         *)
(* set is synchronous.  A set call in progress is a frame on a stack: it   *)
(* has replaced data.current and walks the Set of subscribers, one         *)
(* listener per step; a listener may return, throw, call set again,        *)
(* subscribe or unsubscribe.  A listener that calls set does not catch     *)
(* what that call throws.  React renders and commits outside set calls     *)
(* (createRoot): a consumer's listener only schedules the re-render.       *)
(***************************************************************************)
EXTENDS Integers, Sequences, FiniteSets, TLC

(* ------------------------------ bounds -------------------------------- *)

\* set calls made in one behaviour, nested ones included
MaxSets == 2
\* set calls that may be in progress at once (1 = no re-entrancy)
MaxDepth == 2
\* slots the entry list of the Set may have before the engine rebuilds it
MaxEntries == 4
\* invocations of one listener that a walk counts (the last for "or more")
MaxCounted == 2

(* ------------------------------ values -------------------------------- *)

Num(n) == [k |-> "num", v |-> n]
Undefined == [k |-> "undefined", v |-> 0]
NaN == [k |-> "NaN", v |-> 0]
Null == [k |-> "null", v |-> 0]
Ref(id) == [k |-> "ref", v |-> id]
IsRef(x) == x.k = "ref"

\* count + 1 as JavaScript evaluates it on the values a count can hold
PlusOne(x) == IF x.k = "num" THEN Num(x.v + 1) ELSE NaN

\* the deep structure of a value: the set of its nodes, each a path of
\* property names with what is found there (a primitive, or the mark of an
\* object); two values are structurally equal iff their structures are equal
ObjectMark == [k |-> "object", v |-> 0]
RECURSIVE Struct(_, _, _)
Struct(h, x, path) ==
  IF IsRef(x)
    THEN {<<path, ObjectMark>>} \cup
         UNION {Struct(h, h[x.v][f], Append(path, f)) : f \in DOMAIN h[x.v]}
    ELSE {<<path, x>>}

\* the elements of a finite set, in some fixed order
RECURSIVE SetToSeq(_)
SetToSeq(S) ==
  IF S = {} THEN << >>
  ELSE LET e == CHOOSE x \in S : TRUE IN <<e>> \o SetToSeq(S \ {e})

(* ------------------------- the factory's arguments --------------------- *)

\* createSelectiveContext({count: 0, name: 0, user: {n: 0, age: 0}}, cb?)
\* heap[1] is the user object, heap[2] the initialState object
InitialHeap ==
  << [n |-> Num(0), age |-> Num(0)],
     [count |-> Num(0), name |-> Num(0), user |-> Ref(1)] >>
initialState == Ref(2)

(* ------------------------- the callers' updates ------------------------ *)

\* the arguments callers pass to set: object forms and function forms
ObjectForms == {"count1", "name1", "empty", "userN", "countNaN"}
FunctionForms == {"inc", "sameUser", "boom"}
Updates == ObjectForms \cup FunctionForms

\* an object-form argument is an object literal; a nested literal is a fresh
\* object, allocated when the argument is evaluated (ref is its address)
ObjectLiteral(u, ref) ==
  CASE u = "count1" -> [count |-> Num(1)]
    [] u = "name1" -> [name |-> Num(1)]
    [] u = "userN" -> [user |-> Ref(ref)]
    [] u = "countNaN" -> [count |-> NaN]
    [] OTHER -> << >>
NestedLiteral(u) ==
  IF u = "userN" THEN << [n |-> Num(1)] >> ELSE << >>

\* variant of FnThrows for a set that calls the function in a try block
\* and goes on with no update when it throws
FnThrowsCaught(u) == FALSE

\* a function-form argument applied to a state object
FnThrows(u) == u = "boom"
ApplyFn(u, state) ==
  CASE u = "inc" -> [count |-> PlusOne(state.count)]
    [] u = "sameUser" -> [user |-> state.user]
    [] OTHER -> << >>

(* ------------------------------ the store ------------------------------ *)

Consumers == {"c1", "c2"}
RawListeners == {"r1", "r2"}
Listeners == Consumers \cup RawListeners
Selectors == {"count", "name", "user", "state"}

\* a slot of the Set's entry list whose entry was deleted
Deleted == "<deleted>"

VARIABLES
  heap,          \* the objects allocated so far
  data,          \* data.current: a reference to the current state object
  subscribers,   \* subscribers.current: the Set's entries in insertion order
  stack,         \* the set calls in progress, the innermost last
  cons,          \* the components that call useContext(selector)
  caps,          \* the raw listeners that hold an unsubscribe capability
  hasCallback,   \* whether updateContextCallback was given to the factory
  cbLog,         \* the arguments updateContextCallback was invoked with
  errLog,        \* the number of console.error calls
  outcome,       \* how the latest outermost set call ended for its caller
  calls,         \* the updates of the set calls made so far, in call order
  stores         \* the stores of further Provider activations

vars == <<heap, data, subscribers, stack, cons, caps, hasCallback, cbLog,
          errLog, outcome, calls, stores>>

\* get(): the current state reference
get == data

\* variant of Spread with the operands swapped, {...updatedData,
\* ...data.current}: a property the state already has keeps its old value
SpreadOldWins(current, updatedData) ==
  [f \in DOMAIN current \cup DOMAIN updatedData |->
     IF f \in DOMAIN current THEN current[f] ELSE updatedData[f]]

\* variant of Spread that starts from the factory's argument,
\* {...initialData, ...updatedData}
SpreadFromInitial(current, updatedData) ==
  [f \in DOMAIN current \cup DOMAIN updatedData |->
     IF f \in DOMAIN updatedData THEN updatedData[f]
     ELSE InitialHeap[initialState.v][f]]

\* {...data.current, ...updatedData}: the properties of a fresh object
Spread(current, updatedData) ==
  [f \in DOMAIN current \cup DOMAIN updatedData |->
     IF f \in DOMAIN updatedData THEN updatedData[f] ELSE current[f]]

\* variant of Merge that merges recursively: where the state and the update
\* both hold an object, the new state holds a fresh object with the
\* properties of both, the update's winning
RECURSIVE DeepObjects(_, _, _, _)
DeepObjects(h, fields, current, updatedData) ==
  IF fields = << >> THEN [heap |-> h, at |-> << >>]
  ELSE LET f == Head(fields)
           old == h[current[f].v]
           new == h[updatedData[f].v]
           both == [g \in DOMAIN old \cup DOMAIN new |->
                      IF g \in DOMAIN new THEN new[g] ELSE old[g]]
           rest == DeepObjects(Append(h, both), Tail(fields), current,
                               updatedData)
       IN [heap |-> rest.heap, at |-> (f :> Ref(Len(h) + 1)) @@ rest.at]
MergeDeep(h, state, updatedData) ==
  LET current == h[state.v]
      objects == {f \in DOMAIN current \cap DOMAIN updatedData :
                    IsRef(current[f]) /\ IsRef(updatedData[f])}
      deep == DeepObjects(h, SetToSeq(objects), current, updatedData)
      props == [f \in DOMAIN current \cup DOMAIN updatedData |->
                  IF f \in objects THEN deep.at[f]
                  ELSE IF f \in DOMAIN updatedData THEN updatedData[f]
                  ELSE current[f]]
  IN [heap |-> Append(deep.heap, props), ref |-> Len(deep.heap) + 1]

\* variant of Merge that keeps the state object when the update names no
\* property: if (!Object.keys(updatedData).length) return
MergeKeepsWhenEmpty(h, state, updatedData) ==
  IF DOMAIN updatedData = {}
    THEN [heap |-> h, ref |-> state.v]
    ELSE [heap |-> Append(h, Spread(h[state.v], updatedData)),
          ref |-> Len(h) + 1]

\* variant of Merge that writes the update into the state object,
\* Object.assign(data.current, updatedData)
MergeInPlace(h, state, updatedData) ==
  [heap |-> [h EXCEPT ![state.v] = Spread(h[state.v], updatedData)],
   ref |-> state.v]

\* data.current = {...data.current, ...updatedData}: the heap with the new
\* object, and the new object's address
Merge(h, state, updatedData) ==
  [heap |-> Append(h, Spread(h[state.v], updatedData)), ref |-> Len(h) + 1]

\* variant of Resolve that hands the function the factory's argument,
\* newData(initialData), whatever the state has become
ResolveFromInitial(newData, current, literal) ==
  IF newData \in FunctionForms
    THEN ApplyFn(newData, InitialHeap[initialState.v])
    ELSE literal

\* typeof newData === 'function' ? newData(data.current) : newData
Resolve(newData, current, literal) ==
  IF newData \in FunctionForms THEN ApplyFn(newData, current) ELSE literal

\* the members of the Set
Members(subs) == {subs[i] : i \in DOMAIN subs} \ {Deleted}

\* variant of SetAdd for a registry kept in an array, subscribers.current
\* .push(callback)
SetAddAppends(subs, callback) == Append(subs, callback)

\* subscribers.current.add(callback): a member stays where it is
SetAdd(subs, callback) ==
  IF callback \in Members(subs) THEN subs ELSE Append(subs, callback)

\* variant of SetDelete that empties the whole Set, subscribers.current
\* .clear()
SetDeleteAll(subs, callback) == [i \in DOMAIN subs |-> Deleted]

\* variant of SetDelete for a capability that leaves the Set as it is
SetDeleteNothing(subs, callback) == subs

\* variant of SetDelete that puts a removal asked for during a walk off
\* and forgets it
SetDeleteDeferred(subs, callback) ==
  IF stack # << >> THEN subs
  ELSE [i \in DOMAIN subs |-> IF subs[i] = callback THEN Deleted ELSE subs[i]]

\* subscribers.current.delete(callback): the entry's slot is emptied, so
\* that a forEach in progress keeps its position
SetDelete(subs, callback) ==
  [i \in DOMAIN subs |-> IF subs[i] = callback THEN Deleted ELSE subs[i]]

\* the emptied slots are unobservable once no forEach is in progress
Compact(subs) == SelectSeq(subs, LAMBDA e : e # Deleted)

\* variant of NextEntry for a walk that starts at the second entry
RECURSIVE NextEntrySkipsHead(_, _)
NextEntrySkipsHead(subs, i) ==
  IF i > Len(subs) THEN i
  ELSE IF i = 1 \/ subs[i] = Deleted THEN NextEntrySkipsHead(subs, i + 1)
  ELSE i

\* forEach: the first entry at or after position i that is not deleted, or
\* Len(subs) + 1 when the walk is over
RECURSIVE NextEntry(_, _)
NextEntry(subs, i) ==
  IF i > Len(subs) \/ subs[i] # Deleted THEN i ELSE NextEntry(subs, i + 1)

Idle == stack = << >>
Top == stack[Len(stack)]
NoCalls == [l \in Listeners |-> 0]

\* variant of Frame for a set that skips the walk when the update names no
\* property: if (Object.keys(updatedData).length) subscribers.forEach(..)
FrameQuietWhenEmpty(newData, updatedData, prev, installed, subs) ==
  [newData |-> newData, updatedData |-> updatedData, prev |-> prev,
   installed |-> installed,
   idx |-> IF DOMAIN updatedData = {} THEN Len(subs) + 1 ELSE 1,
   called |-> NoCalls, registered |-> Members(subs), reentered |-> FALSE,
   changed |-> FALSE, fresh |-> {}]

\* variant of Frame for a set that leaves the notification to the walk in
\* progress when a listener calls it: if (!walking) subscribers.forEach(..)
FrameLeavesWalkToOuter(newData, updatedData, prev, installed, subs) ==
  [newData |-> newData, updatedData |-> updatedData, prev |-> prev,
   installed |-> installed,
   idx |-> IF stack # << >> THEN Len(subs) + 1 ELSE 1,
   called |-> NoCalls, registered |-> Members(subs), reentered |-> FALSE,
   changed |-> FALSE, fresh |-> {}]

\* the frame of a set call that has replaced the state and starts its walk;
\* fresh are the listeners invoked since the latest replacement of the
\* state, by this call's walk or by the walks of the calls made inside it
Frame(newData, updatedData, prev, installed, subs) ==
  [newData |-> newData, updatedData |-> updatedData, prev |-> prev,
   installed |-> installed, idx |-> 1, called |-> NoCalls,
   registered |-> Members(subs), reentered |-> FALSE, changed |-> FALSE,
   fresh |-> {}]

\* variant of Enter for a set that holds a lock during the walk: a call
\* made by a listener returns at once and its update is dropped
EnterLocked(newData, stk) ==
  LET nested == IF newData \in ObjectForms
                  THEN NestedLiteral(newData) ELSE << >>
      heap1 == heap \o nested
      updatedData == Resolve(newData, heap[data.v],
                              ObjectLiteral(newData, Len(heap) + 1))
      merged == Merge(heap1, data, updatedData)
      installed == Ref(merged.ref)
  IN /\ Len(calls) < MaxSets
     /\ ~FnThrows(newData)
     /\ calls' = Append(calls, newData)
     /\ IF stk = << >>
          THEN /\ heap' = merged.heap
               /\ data' = installed
               /\ stack' = <<Frame(newData, updatedData, data, installed,
                                   subscribers)>>
          ELSE /\ heap' = heap
               /\ data' = data
               /\ stack' = stk

\* set(newData) up to the replacement of data.current; the caller has
\* evaluated the argument, which allocates the literal's nested objects
Enter(newData, stk) ==
  LET nested == IF newData \in ObjectForms
                  THEN NestedLiteral(newData) ELSE << >>
      heap1 == heap \o nested
      updatedData == Resolve(newData, heap[data.v],
                              ObjectLiteral(newData, Len(heap) + 1))
      merged == Merge(heap1, data, updatedData)
      installed == Ref(merged.ref)
  IN /\ Len(calls) < MaxSets
     /\ ~FnThrows(newData)
     /\ heap' = merged.heap
     /\ data' = installed
     /\ calls' = Append(calls, newData)
     /\ stack' = Append(
          [i \in DOMAIN stk |->
             [stk[i] EXCEPT !.reentered = TRUE, !.fresh = {}]],
          Frame(newData, updatedData, data, installed, subscribers))

\* variant of Unwind for a set that catches what a listener throws as it
\* catches what the callback throws, and returns
UnwindSwallowed ==
  /\ stack' = << >>
  /\ subscribers' = Compact(subscribers)
  /\ outcome' = "returned"

\* an error leaves set and every set call below it: a listener that called
\* set lets the error through to the forEach that invoked it
Unwind ==
  /\ stack' = << >>
  /\ subscribers' = Compact(subscribers)
  /\ outcome' = "threw"

(* ------------------- JSON.parse(JSON.stringify(state)) ----------------- *)

\* JSON.stringify: the document of a value, a set of nodes (path, what is
\* there).  A property whose value is undefined is left out, NaN is written
\* as null, an object is written property by property
RECURSIVE JsonStringify(_, _, _)
JsonStringify(h, x, path) ==
  IF IsRef(x)
    THEN {<<path, ObjectMark>>} \cup
         UNION {JsonStringify(h, h[x.v][f], Append(path, f)) :
                  f \in {g \in DOMAIN h[x.v] : h[x.v][g] # Undefined}}
    ELSE {<<path, IF x = NaN THEN Null ELSE x>>}

NodeAt(doc, path) == (CHOOSE n \in doc : n[1] = path)[2]
ChildPaths(doc, path) ==
  {n[1] : n \in {m \in doc : /\ Len(m[1]) = Len(path) + 1
                             /\ SubSeq(m[1], 1, Len(path)) = path}}

\* JSON.parse: every object of the document is allocated afresh, the nested
\* ones before the object that holds them
RECURSIVE JsonParseAt(_, _, _), JsonParseAll(_, _, _)
JsonParseAt(doc, path, h) ==
  LET kids == ChildPaths(doc, path)
      objects == {q \in kids : NodeAt(doc, q) = ObjectMark}
      r == JsonParseAll(doc, SetToSeq(objects), h)
      obj == [f \in {q[Len(q)] : q \in kids} |->
                IF Append(path, f) \in objects
                  THEN Ref(r.refs[Append(path, f)])
                  ELSE NodeAt(doc, Append(path, f))]
  IN [heap |-> Append(r.heap, obj), ref |-> Len(r.heap) + 1]
JsonParseAll(doc, paths, h) ==
  IF paths = << >> THEN [heap |-> h, refs |-> << >>]
  ELSE LET first == JsonParseAt(doc, Head(paths), h)
           rest == JsonParseAll(doc, Tail(paths), first.heap)
       IN [heap |-> rest.heap,
           refs |-> (Head(paths) :> first.ref) @@ rest.refs]

\* variant of JsonRoundTrip that makes no copy: updateContextCallback?.(
\* data.current)
JsonRoundTripAlias(h, state) == [heap |-> h, ref |-> state.v]

\* JSON.parse(JSON.stringify(data.current)): the heap after the copy was
\* allocated, and the copy's address
JsonRoundTrip(h, state) == JsonParseAt(JsonStringify(h, state, << >>), << >>, h)

\* what an updateContextCallback does that returns, or that assigns to its
\* argument before it returns: newState.count = 9; newState.user.n = 9
CallbackBehaviours == {"returns", "writes"}
CallbackWrites(h, newState) ==
  [h EXCEPT ![newState].count = Num(9), ![h[newState].user.v].n = Num(9)]

(* ---------------------------- the consumers ---------------------------- *)

\* a consumer's selector applied to a state object
Select(selector, h, state) ==
  CASE selector = "count" -> h[state.v].count
    [] selector = "name" -> h[state.v].name
    [] selector = "user" -> h[state.v].user
    [] OTHER -> state

NotMounted == [status |-> "unmounted", context |-> "none",
               selector |-> "none", value |-> Undefined, dirty |-> FALSE]

\* variant of GetSnapshot that reads the factory's argument, () =>
\* selector(initialState), the server snapshot in the client's place
GetSnapshotInitial(selector) == Select(selector, InitialHeap, initialState)

\* the getSnapshot useContext hands to useSyncExternalStore:
\* () => selector(context.get())
GetSnapshot(selector) == Select(selector, heap, get)

\* variant of GetServerSnapshot that reads the store, () =>
\* selector(context.get())
GetServerSnapshotLive(selector) == Select(selector, heap, get)

\* the getServerSnapshot useContext hands to useSyncExternalStore:
\* () => selector(initialState)
GetServerSnapshot(selector) == Select(selector, heap, initialState)

\* variant of SnapshotChanged for a binding that re-renders on every
\* notification, as a plain React context does
SnapshotChangedAlways(c) == TRUE

\* the store-change listener useSyncExternalStore subscribes for a
\* consumer: a re-render is due iff the snapshot is not Object.is-equal to
\* the one the consumer was last rendered with
SnapshotChanged(c) == GetSnapshot(cons[c].selector) # cons[c].value

\* variant of UseContext without the null check, which falls back to the
\* projection of the factory's argument
UseContextDefaults(context, selector) ==
  IF context = "null"
    THEN [threw |-> FALSE,
          value |-> Select(selector, InitialHeap, initialState),
          subscribes |-> FALSE]
    ELSE [threw |-> FALSE, value |-> GetSnapshot(selector),
          subscribes |-> TRUE]

\* variant of UseContext that reads the snapshot once and never subscribes,
\* [selector(context.get()), context.set]
UseContextUnsubscribed(context, selector) ==
  IF context = "null"
    THEN [threw |-> TRUE, value |-> Undefined, subscribes |-> FALSE]
    ELSE [threw |-> FALSE, value |-> GetSnapshot(selector),
          subscribes |-> FALSE]

\* useContext(selector) in a component whose nearest Context value is
\* context (the store, or null when no Provider is above it)
UseContext(context, selector) ==
  IF context = "null"
    THEN [threw |-> TRUE, value |-> Undefined, subscribes |-> FALSE]
    ELSE [threw |-> FALSE, value |-> GetSnapshot(selector),
          subscribes |-> TRUE]

(* ------------------------ the Provider activations --------------------- *)

\* Provider activations whose stores are followed call by call: p1 and p2
\* render the Provider of one factory, q1 the Provider of a second factory
\* created with the same arguments; useContextStore runs the same way for
\* all, on the refs of the activation
Activations == {"p1", "p2", "q1"}

NoSubscribeCalls == [l \in RawListeners |-> 0]

\* no store: the Provider has not been rendered
NoStore == [active |-> FALSE, data |-> Undefined, subscribers |-> << >>,
            invoked |-> << >>, asked |-> NoSubscribeCalls]

\* variant of UseContextStore whose data ref is one cell of the module,
\* shared by the activations: a new activation finds the state a live
\* store has reached
UseContextStoreShared(initialData) ==
  LET live == {q \in Activations : stores[q].active}
  IN [active |-> TRUE,
      data |-> IF live = {} THEN initialData
               ELSE stores[CHOOSE q \in live : TRUE].data,
      subscribers |-> << >>, invoked |-> << >>, asked |-> NoSubscribeCalls]

\* useContextStore(initialData) in the first render of a Provider: the refs
\* of this activation, data = useRef(initialData) and subscribers =
\* useRef(new Set()); invoked are the listeners the latest set call on this
\* store invoked, the registry being as that call met it; asked are the
\* subscribe calls made for a listener since it was last added to the
\* registry (2 for two or more), each of which returned a capability
UseContextStore(initialData) ==
  [active |-> TRUE, data |-> initialData, subscribers |-> << >>,
   invoked |-> << >>, asked |-> NoSubscribeCalls]

(* ------------------------------- actions ------------------------------- *)

Init ==
  /\ heap = InitialHeap
  /\ data = initialState
  /\ subscribers = << >>
  /\ stack = << >>
  /\ cons = [c \in Consumers |-> NotMounted]
  /\ caps = {}
  /\ hasCallback \in BOOLEAN
  /\ cbLog = << >>
  /\ errLog = 0
  /\ outcome = "none"
  /\ calls = << >>
  /\ stores = [p \in Activations |-> NoStore]

\* a component, an event handler or a test calls set(newData)
SetCall(newData) ==
  /\ Idle
  /\ Enter(newData, stack)
  /\ UNCHANGED <<subscribers, cons, caps, hasCallback, cbLog, errLog,
                 outcome, stores>>

\* set(newData) with a function that throws: nothing is reached after it
SetCallThrows(newData) ==
  /\ Idle
  /\ Len(calls) < MaxSets
  /\ FnThrows(newData)
  /\ outcome' = "threw"
  /\ UNCHANGED <<heap, data, subscribers, stack, cons, caps, hasCallback,
                 cbLog, errLog, calls, stores>>

\* the walk of the innermost set call reaches listener l
AtListener(l) ==
  /\ ~Idle
  /\ NextEntry(subscribers, Top.idx) <= Len(subscribers)
  /\ subscribers[NextEntry(subscribers, Top.idx)] = l

\* forEach has invoked l and moves on
Invoked(stk, l) ==
  [stk EXCEPT ![Len(stk)] =
     [@ EXCEPT !.idx = NextEntry(subscribers, @) + 1,
               !.called = [@ EXCEPT ![l] = @ + 1],
               !.fresh = @ \cup {l}]]

RegistryChanged(stk) == [i \in DOMAIN stk |-> [stk[i] EXCEPT !.changed = TRUE]]

\* a consumer's listener: useSyncExternalStore compares snapshots and
\* schedules the re-render; the render itself runs after the set call
ConsumerNotified(c) ==
  /\ c \in Consumers
  /\ AtListener(c)
  /\ stack' = Invoked(stack, c)
  /\ cons' = [cons EXCEPT ![c].dirty = @ \/ SnapshotChanged(c)]
  /\ UNCHANGED <<heap, data, subscribers, caps, hasCallback, cbLog, errLog,
                 outcome, calls, stores>>

\* a listener subscribed through the Context's store that only observes
ListenerReturns(r) ==
  /\ r \in RawListeners
  /\ AtListener(r)
  /\ stack' = Invoked(stack, r)
  /\ UNCHANGED <<heap, data, subscribers, cons, caps, hasCallback, cbLog,
                 errLog, outcome, calls, stores>>

\* a listener throws: forEach and set have no handler around it
ListenerThrows(r) ==
  /\ r \in RawListeners
  /\ AtListener(r)
  /\ Unwind
  /\ UNCHANGED <<heap, data, cons, caps, hasCallback, cbLog, errLog, calls,
                 stores>>

\* a listener calls set while the walk that invoked it is in progress
ListenerSets(r, newData) ==
  /\ r \in RawListeners
  /\ AtListener(r)
  /\ Len(stack) < MaxDepth
  /\ Enter(newData, Invoked(stack, r))
  /\ UNCHANGED <<subscribers, cons, caps, hasCallback, cbLog, errLog,
                 outcome, stores>>

\* a listener calls set with a function that throws
ListenerSetsThrows(r, newData) ==
  /\ r \in RawListeners
  /\ AtListener(r)
  /\ Len(stack) < MaxDepth
  /\ Len(calls) < MaxSets
  /\ FnThrows(newData)
  /\ Unwind
  /\ UNCHANGED <<heap, data, cons, caps, hasCallback, cbLog, errLog, calls,
                 stores>>

\* a listener invokes the unsubscribe capability of raw listener x
ListenerUnsubscribes(r, x) ==
  /\ r \in RawListeners
  /\ AtListener(r)
  /\ x \in caps
  /\ subscribers' = SetDelete(subscribers, x)
  /\ stack' = IF subscribers' = subscribers THEN Invoked(stack, r)
              ELSE RegistryChanged(Invoked(stack, r))
  /\ UNCHANGED <<heap, data, cons, caps, hasCallback, cbLog, errLog,
                 outcome, calls, stores>>

\* a listener subscribes raw listener x
ListenerSubscribes(r, x) ==
  /\ r \in RawListeners
  /\ AtListener(r)
  /\ x \in RawListeners
  /\ subscribers' = SetAdd(subscribers, x)
  /\ caps' = caps \cup {x}
  /\ stack' = IF subscribers' = subscribers THEN Invoked(stack, r)
              ELSE RegistryChanged(Invoked(stack, r))
  /\ UNCHANGED <<heap, data, cons, hasCallback, cbLog, errLog, outcome,
                 calls, stores>>

\* the engine rebuilds the entry list of the Set without its emptied
\* slots; a forEach in progress keeps its place among the entries left
Rehash(subs, stk) ==
  [subscribers |-> Compact(subs),
   stack |-> [i \in DOMAIN stk |->
                [stk[i] EXCEPT !.idx =
                   @ - Cardinality({j \in DOMAIN subs :
                                      j < @ /\ subs[j] = Deleted})]]]

\* the invocations counted up to MaxCounted
Counted(stk) ==
  [i \in DOMAIN stk |->
     [stk[i] EXCEPT !.called =
        [l \in Listeners |-> IF @[l] > MaxCounted THEN MaxCounted ELSE @[l]]]]

\* a listener invokes its own capability and subscribes itself again:
\* delete empties its slot and add appends it behind the walk's position
ListenerResubscribes(r) ==
  /\ r \in RawListeners
  /\ AtListener(r)
  /\ LET moved == SetAdd(SetDelete(subscribers, r), r)
         walked == Counted(RegistryChanged(Invoked(stack, r)))
         rebuilt == Rehash(moved, walked)
     IN IF Len(moved) > MaxEntries
          THEN subscribers' = rebuilt.subscribers /\ stack' = rebuilt.stack
          ELSE subscribers' = moved /\ stack' = walked
  /\ UNCHANGED <<heap, data, cons, caps, hasCallback, cbLog, errLog,
                 outcome, calls, stores>>

\* variant of TryCallback without the try block: updateContextCallback?.(copy)
TryCallbackUnguarded(cbThrew) == [propagates |-> cbThrew, logged |-> 0]

\* try { updateContextCallback?.(copy) } catch (error) { console.error(..) }
\* whether the error leaves set, and the console.error calls made
TryCallback(cbThrew) ==
  [propagates |-> FALSE, logged |-> IF cbThrew THEN 1 ELSE 0]

\* variant of Return for a set that starts its walk over when the walk is
\* done: for (;;) subscribers.current.forEach(..)
ReturnWalksAgain ==
  /\ stack' = [stack EXCEPT ![Len(stack)] =
                 [@ EXCEPT !.idx = 1, !.called = NoCalls, !.fresh = {}]]
  /\ UNCHANGED <<subscribers, outcome>>

\* the innermost set call ends: its caller goes on, and with the outermost
\* call the walk over the entries is over too
Return ==
  /\ stack' = [i \in 1 .. Len(stack) - 1 |->
                IF i = Len(stack) - 1
                  THEN [stack[i] EXCEPT !.fresh = @ \cup Top.fresh]
                  ELSE stack[i]]
  /\ IF Len(stack) = 1
       THEN /\ subscribers' = Compact(subscribers)
            /\ outcome' = "returned"
       ELSE UNCHANGED <<subscribers, outcome>>

\* variant of WalkOver for a set that invokes the callback before the walk
WalkNotStarted == ~Idle /\ Top.idx = 1

\* forEach has returned: no entry is left at or after the walk's position
WalkOver == ~Idle /\ NextEntry(subscribers, Top.idx) > Len(subscribers)

\* after the walk set invokes updateContextCallback with the JSON copy of
\* data.current; the callback returns (cbThrew = FALSE) or throws
CallbackInvoked(cbThrew) ==
  /\ WalkOver
  /\ hasCallback
  /\ LET copy == JsonRoundTrip(heap, data)
         try == TryCallback(cbThrew)
     IN /\ heap' = copy.heap
        /\ cbLog' = Append(cbLog, Ref(copy.ref))
        /\ errLog' = errLog + try.logged
        /\ IF try.propagates THEN Unwind ELSE Return
  /\ UNCHANGED <<data, cons, caps, hasCallback, calls, stores>>

\* updateContextCallback?.(..) when no callback was given
NoCallback ==
  /\ WalkOver
  /\ ~hasCallback
  /\ Return
  /\ UNCHANGED <<heap, data, cons, caps, hasCallback, cbLog, errLog, calls,
                 stores>>

\* a component that calls useContext(selector) is rendered for the first
\* time, under the Provider (context = "store") or outside it ("null");
\* React runs the subscription of useSyncExternalStore with the commit
Mount(c, context, selector) ==
  /\ Idle
  /\ cons[c].status # "mounted"
  /\ LET use == UseContext(context, selector)
     IN /\ cons' = [cons EXCEPT ![c] =
                      IF use.threw
                        THEN [NotMounted EXCEPT !.status = "failed",
                                                !.context = context]
                        ELSE [status |-> "mounted", context |-> context,
                              selector |-> selector, value |-> use.value,
                              dirty |-> FALSE]]
        /\ subscribers' = IF use.subscribes THEN SetAdd(subscribers, c)
                          ELSE subscribers
  /\ UNCHANGED <<heap, data, stack, caps, hasCallback, cbLog, errLog,
                 outcome, calls, stores>>

\* a component of server-rendered markup is hydrated under the Provider:
\* React renders it with the server snapshot, runs the subscription with
\* the commit and schedules a re-render when the client snapshot differs
Hydrate(c, selector) ==
  /\ Idle
  /\ cons[c].status # "mounted"
  /\ cons' = [cons EXCEPT ![c] =
                [status |-> "mounted", context |-> "store",
                 selector |-> selector,
                 value |-> GetServerSnapshot(selector),
                 dirty |-> GetSnapshot(selector) # GetServerSnapshot(selector)]]
  /\ subscribers' = SetAdd(subscribers, c)
  /\ UNCHANGED <<heap, data, stack, caps, hasCallback, cbLog, errLog,
                 outcome, calls, stores>>

\* a mounted consumer calls the setter useContext returned to it, which is
\* context.set whatever its selector
ConsumerSets(c, newData) ==
  /\ cons[c].status = "mounted"
  /\ cons[c].context = "store"
  /\ SetCall(newData)

\* the component is removed: React invokes the unsubscribe capability; the
\* record keeps the context the component had been rendered under
Unmount(c) ==
  /\ Idle
  /\ cons[c].status = "mounted"
  /\ cons' = [cons EXCEPT ![c] =
                [NotMounted EXCEPT !.context = cons[c].context]]
  /\ subscribers' = Compact(SetDelete(subscribers, c))
  /\ UNCHANGED <<heap, data, stack, caps, hasCallback, cbLog, errLog,
                 outcome, calls, stores>>

\* React processes a scheduled re-render: the component reads the snapshot
Rerender(c) ==
  /\ Idle
  /\ cons[c].status = "mounted"
  /\ cons[c].dirty
  /\ cons' = [cons EXCEPT ![c].value = GetSnapshot(cons[c].selector),
                          ![c].dirty = FALSE]
  /\ UNCHANGED <<heap, data, subscribers, stack, caps, hasCallback, cbLog,
                 errLog, outcome, calls, stores>>

\* variant of Subscribe for a store that reports a subscription to the
\* callback of the factory
SubscribeReports(r) ==
  /\ Idle
  /\ subscribers' = SetAdd(subscribers, r)
  /\ caps' = caps \cup {r}
  /\ cbLog' = IF hasCallback THEN Append(cbLog, data) ELSE cbLog
  /\ UNCHANGED <<heap, data, stack, cons, hasCallback, errLog, outcome,
                 calls, stores>>

\* subscribe(callback) by code that took the store from the Context
Subscribe(r) ==
  /\ Idle
  /\ subscribers' = SetAdd(subscribers, r)
  /\ caps' = caps \cup {r}
  /\ UNCHANGED <<heap, data, stack, cons, hasCallback, cbLog, errLog,
                 outcome, calls, stores>>

\* the capability subscribe returned: () => subscribers.current.delete(..)
Unsubscribe(r) ==
  /\ Idle
  /\ r \in caps
  /\ subscribers' = Compact(SetDelete(subscribers, r))
  /\ UNCHANGED <<heap, data, stack, cons, caps, hasCallback, cbLog, errLog,
                 outcome, calls, stores>>

\* a Provider is rendered for the first time: <Context.Provider
\* value={useContextStore(initialState)}>
ProviderActivates(p) ==
  /\ ~stores[p].active
  /\ stores' = [stores EXCEPT ![p] = UseContextStore(initialState)]
  /\ UNCHANGED <<heap, data, subscribers, stack, cons, caps, hasCallback,
                 cbLog, errLog, outcome, calls>>

\* subscribe(l) on the store of activation p
ProviderSubscribe(p, l) ==
  /\ stores[p].active
  /\ stores' = [stores EXCEPT
                  ![p].subscribers = SetAdd(@, l),
                  ![p].invoked = << >>,
                  ![p].asked[l] =
                    IF l \notin Members(stores[p].subscribers) THEN 1
                    ELSE IF @ < 2 THEN @ + 1 ELSE @]
  /\ UNCHANGED <<heap, data, subscribers, stack, cons, caps, hasCallback,
                 cbLog, errLog, outcome, calls>>

\* variant of ProviderUnsubscribe for a registry that counts the
\* subscriptions of a callback and removes it with the last capability
ProviderUnsubscribeCounted(p, l) ==
  /\ stores[p].active
  /\ stores[p].asked[l] > 0
  /\ stores' = [stores EXCEPT
                  ![p].subscribers = IF stores[p].asked[l] = 2 THEN @
                                     ELSE Compact(SetDelete(@, l)),
                  ![p].invoked = << >>,
                  ![p].asked[l] = IF @ = 2 THEN 1 ELSE @]
  /\ UNCHANGED <<heap, data, subscribers, stack, cons, caps, hasCallback,
                 cbLog, errLog, outcome, calls>>

\* a capability that subscribe(l) returned on the store of activation p
\* is invoked: () => subscribers.current.delete(l)
ProviderUnsubscribe(p, l) ==
  /\ stores[p].active
  /\ stores[p].asked[l] > 0
  /\ stores' = [stores EXCEPT
                  ![p].subscribers = Compact(SetDelete(@, l)),
                  ![p].invoked = << >>]
  /\ UNCHANGED <<heap, data, subscribers, stack, cons, caps, hasCallback,
                 cbLog, errLog, outcome, calls>>

\* set(newData) on the store of activation p, from the call to its return,
\* with listeners that return and a callback that behaves as cb
ProviderSet(p, newData, cb) ==
  LET s == stores[p]
      nested == IF newData \in ObjectForms
                  THEN NestedLiteral(newData) ELSE << >>
      heap1 == heap \o nested
      updatedData == Resolve(newData, heap[s.data.v],
                              ObjectLiteral(newData, Len(heap) + 1))
      merged == Merge(heap1, s.data, updatedData)
      copy == JsonRoundTrip(merged.heap, Ref(merged.ref))
  IN /\ s.active
     /\ Len(calls) < MaxSets
     /\ ~FnThrows(newData)
     /\ hasCallback \/ cb = "returns"
     /\ stores' = [stores EXCEPT ![p].data = Ref(merged.ref),
                                 ![p].invoked = Compact(s.subscribers)]
     /\ calls' = Append(calls, newData)
     /\ IF hasCallback
          THEN /\ heap' = IF cb = "writes"
                             THEN CallbackWrites(copy.heap, copy.ref)
                             ELSE copy.heap
               /\ cbLog' = Append(cbLog, Ref(copy.ref))
          ELSE /\ heap' = merged.heap
               /\ cbLog' = cbLog
     /\ UNCHANGED <<data, subscribers, stack, cons, caps, hasCallback,
                    errLog, outcome>>

(* --------------------------- specifications ---------------------------- *)

\* the updates listeners pass to set from inside a walk
NestedUpdates == {"inc", "name1", "boom"}

\* The store and the code that uses it directly: set calls with every update,
\* listeners that observe, throw, call set, subscribe and unsubscribe, the
\* callback.  A consumer's listener is to the store a listener that returns.
NextStore ==
  \/ \E u \in Updates : SetCall(u)
  \/ \E u \in Updates : SetCallThrows(u)
  \/ \E r \in RawListeners : ListenerReturns(r)
  \/ \E r \in RawListeners : ListenerThrows(r)
  \/ \E r \in RawListeners, u \in NestedUpdates : ListenerSets(r, u)
  \/ \E r \in RawListeners, u \in NestedUpdates : ListenerSetsThrows(r, u)
  \/ \E r \in RawListeners, x \in RawListeners : ListenerUnsubscribes(r, x)
  \/ \E r \in RawListeners, x \in RawListeners : ListenerSubscribes(r, x)
  \/ \E b \in BOOLEAN : CallbackInvoked(b)
  \/ NoCallback
  \/ \E r \in RawListeners : Subscribe(r)
  \/ \E r \in RawListeners : Unsubscribe(r)

SpecStore == Init /\ [][NextStore]_vars

\* The consumers under one Provider, next to one listener subscribed
\* directly; no callback was given to the factory.
ReactUpdates == {"count1", "name1", "userN", "inc", "empty"}
DirectListeners == {"r1"}

InitReact == Init /\ ~hasCallback

NextReact ==
  \/ \E u \in ReactUpdates : SetCall(u)
  \/ \E c \in Consumers, u \in ReactUpdates : ConsumerSets(c, u)
  \/ \E c \in Consumers : ConsumerNotified(c)
  \/ \E r \in DirectListeners : ListenerReturns(r)
  \/ \E r \in DirectListeners : ListenerThrows(r)
  \/ \E r \in DirectListeners : ListenerSets(r, "inc")
  \/ NoCallback
  \/ \E c \in Consumers, s \in Selectors : Mount(c, "store", s)
  \/ \E c \in Consumers, s \in Selectors : Mount(c, "null", s)
  \/ \E c \in Consumers, s \in Selectors : Hydrate(c, s)
  \/ \E c \in Consumers : Unmount(c)
  \/ \E c \in Consumers : Rerender(c)
  \/ \E r \in DirectListeners : Subscribe(r)
  \/ \E r \in DirectListeners : Unsubscribe(r)

SpecReact == InitReact /\ [][NextReact]_vars

\* The store with listeners that observe, throw, call set, subscribe a
\* listener or move themselves to the end of the registry during a walk;
\* no callback was given to the factory.  set is synchronous: a call in
\* progress runs on, statement after statement, until it returns or throws.
TerminationUpdates == {"count1"}

InitTermination == Init /\ ~hasCallback

NextTermination ==
  \/ \E u \in TerminationUpdates : SetCall(u)
  \/ \E r \in RawListeners : ListenerReturns(r)
  \/ \E r \in RawListeners : ListenerThrows(r)
  \/ \E r \in RawListeners : ListenerSets(r, "inc")
  \/ \E r \in RawListeners, x \in RawListeners : ListenerSubscribes(r, x)
  \/ \E r \in RawListeners : ListenerResubscribes(r)
  \/ NoCallback
  \/ \E r \in RawListeners : Subscribe(r)
  \/ \E r \in RawListeners : Unsubscribe(r)

Running == ~Idle /\ NextTermination

SpecTermination ==
  InitTermination /\ [][NextTermination]_vars /\ WF_vars(Running)

\* Several Provider activations next to each other, each with its store,
\* their set calls taken as a whole.
ProviderUpdates == {"userN", "inc"}
ProviderListeners == {"r1"}

NextProviders ==
  \/ \E p \in Activations : ProviderActivates(p)
  \/ \E p \in Activations, l \in ProviderListeners : ProviderSubscribe(p, l)
  \/ \E p \in Activations, l \in ProviderListeners : ProviderUnsubscribe(p, l)
  \/ \E p \in Activations, u \in ProviderUpdates, cb \in CallbackBehaviours :
       ProviderSet(p, u, cb)

SpecProviders == Init /\ [][NextProviders]_vars

(* ------------------------ properties of the store ---------------------- *)

\* shallow merge stated on structures, apart from the heap: the update of a
\* set call as a structure, given the structure of the state it meets
UpdateStruct(u, S) ==
  CASE u = "count1" -> {<< <<"count">>, Num(1) >>}
    [] u = "name1" -> {<< <<"name">>, Num(1) >>}
    [] u = "countNaN" -> {<< <<"count">>, NaN >>}
    [] u = "userN" -> {<< <<"user">>, ObjectMark >>,
                       << <<"user", "n">>, Num(1) >>}
    [] u = "inc" -> {<< <<"count">>, PlusOne(NodeAt(S, <<"count">>)) >>}
    [] u = "sameUser" -> {n \in S : n[1] # << >> /\ n[1][1] = "user"}
    [] OTHER -> {}

\* the top-level properties an update names are replaced with all that is
\* below them, the others stay
ShallowMerge(S, P) ==
  {n \in S : n[1] = << >> \/ n[1][1] \notin {m[1][1] : m \in P}} \cup P

RECURSIVE MergeAll(_, _)
MergeAll(S, updates) ==
  IF updates = << >> THEN S
  ELSE MergeAll(ShallowMerge(S, UpdateStruct(Head(updates), S)),
                Tail(updates))

\* C1: after any sequence of set calls, made by callers or by listeners
\* inside a walk, the state get() returns is structurally the initial state
\* shallow-merged with the calls' updates in call order, a function-form
\* update being applied to the state it meets
C1_OrderedShallowMerge ==
  Struct(heap, get, << >>) =
    MergeAll(Struct(InitialHeap, initialState, << >>), calls)

\* C1 witness: two object-form calls wrote count one after the other and
\* the state holds the value written last
C1_Witness ==
  /\ Idle
  /\ outcome = "returned"
  /\ calls = <<"count1", "countNaN">>
  /\ heap[get.v].count = NaN

\* C9: in every set call, each top-level property of the previous state
\* that the resolved update does not name has in the installed state the
\* value it had, a nested object the very same reference
C9_UnnamedFieldsKept ==
  \A i \in DOMAIN stack :
    \A f \in DOMAIN heap[stack[i].prev.v] \ DOMAIN stack[i].updatedData :
      /\ f \in DOMAIN heap[stack[i].installed.v]
      /\ heap[stack[i].installed.v][f] = heap[stack[i].prev.v][f]

\* C9 witness: a set call that names only name met a state whose count
\* had been written before, and count and user are still what they were
C9_Witness ==
  /\ ~Idle
  /\ Top.newData = "name1"
  /\ heap[Top.prev.v].count # Num(0)
  /\ heap[Top.installed.v].count = heap[Top.prev.v].count
  /\ heap[Top.installed.v].user = heap[Top.prev.v].user

\* C10: in every set call, each top-level property the resolved update
\* names holds in the installed state exactly the update's value: a
\* supplied object is installed by reference and nothing of the old
\* object is merged into it
C10_NamedFieldsReplaced ==
  \A i \in DOMAIN stack :
    \A f \in DOMAIN stack[i].updatedData :
      /\ heap[stack[i].installed.v][f] = stack[i].updatedData[f]
      /\ stack[i].newData = "userN" =>
           Struct(heap, heap[stack[i].installed.v][f], << >>) =
             Struct(NestedLiteral("userN"), Ref(1), << >>)

\* C10 witness: the old user had the properties n and age, the update
\* supplied a user with n alone, and the installed user has no age
C10_Witness ==
  /\ ~Idle
  /\ Top.newData = "userN"
  /\ DOMAIN heap[heap[Top.prev.v].user.v] = {"n", "age"}
  /\ DOMAIN heap[heap[Top.installed.v].user.v] = {"n"}

C5_UnsubscribeRemovesThatListener ==
  [][/\ \A x \in RawListeners :
          (Unsubscribe(x) \/ \E r \in RawListeners : ListenerUnsubscribes(r, x))
            => Members(subscribers') = Members(subscribers) \ {x}
     /\ \A l \in Listeners :
          (\E i \in DOMAIN stack \cap DOMAIN stack' :
              stack'[i].called[l] > stack[i].called[l])
            => l \in Members(subscribers)]_vars

\* C5 witness: r1 was subscribed and unsubscribed, r2 stays registered, and
\* the walk of a later set call has invoked r2 and not r1
C5_Witness ==
  /\ WalkOver
  /\ "r1" \in caps
  /\ Top.registered = {"r2"}
  /\ Members(subscribers) = {"r2"}
  /\ Top.called["r2"] = 1
  /\ Top.called["r1"] = 0

\* what the store owes after any set call: the state is the ordered
\* shallow merge, and a finished walk has invoked every registered listener
StoreSound ==
  /\ C1_OrderedShallowMerge
  /\ WalkOver => \A l \in Members(subscribers) : Top.called[l] >= 1

\* C6: whenever updateContextCallback is invoked, whether it returns or
\* throws, the set call returns to its caller (the outermost caller sees
\* no error), the stored state is the one that was there before the
\* callback ran and every registered listener has been invoked in that
\* call's walk; and once the callback has thrown, the store goes on as
\* before: later set calls merge and notify as every set call does
C6_CallbackErrorIsolated ==
  /\ [][Len(cbLog') > Len(cbLog) =>
          /\ Len(stack') = Len(stack) - 1
          /\ outcome' = IF Len(stack) = 1 THEN "returned" ELSE outcome
          /\ data' = data
          /\ Members(subscribers') = Members(subscribers)
          /\ \A l \in Members(subscribers) : Top.called[l] >= 1]_vars
  /\ [](errLog > 0 => StoreSound)

\* C6 witness: the callback threw in two set calls, the second of which
\* ran its walk over a registered listener and returned
C6_Witness ==
  /\ Idle
  /\ outcome = "returned"
  /\ errLog = 2
  /\ Len(cbLog) = 2
  /\ Len(calls) = 2
  /\ Members(subscribers) # {}

\* C7 as claimed: the argument of the latest updateContextCallback
\* invocation is structurally equal to the state get() returns once the set
\* call has returned
C7_Claimed ==
  (Idle /\ hasCallback /\ outcome = "returned" /\ cbLog # << >>) =>
    Struct(heap, cbLog[Len(cbLog)], << >>) = Struct(heap, get, << >>)

(* ---------------------- properties of the consumers -------------------- *)

Mounted(c) == cons[c].status = "mounted"
Projection(c, state) == Select(cons[c].selector, heap, state)

C8_NoProviderFails ==
  \A c \in Consumers :
    cons[c].context = "null" =>
      /\ cons[c].status = "failed"
      /\ cons[c].value = Undefined
      /\ cons[c].selector = "none"
      /\ c \notin Members(subscribers)

\* C8 witness: one component failed outside the Provider while the other is
\* mounted under it and subscribed
C8_Witness ==
  \E c, d \in Consumers :
    /\ cons[c].context = "null"
    /\ cons[c].status = "failed"
    /\ cons[d].context = "store"
    /\ Mounted(d)
    /\ Members(subscribers) = {d}

(* ---------------------- function-form updates, set({}) ----------------- *)

\* C11: the function of a function-form set call is applied to the state
\* the store holds at the moment of that call, so that after n calls
\* set(s => ({count: s.count + 1})) and no other, from count 0, get().count
\* is n
C11_FunctionGetsCurrentState ==
  /\ \A i \in DOMAIN stack :
       stack[i].newData \in FunctionForms =>
         stack[i].updatedData = ApplyFn(stack[i].newData, heap[stack[i].prev.v])
  /\ (\A i \in DOMAIN calls : calls[i] = "inc") =>
       heap[get.v].count = Num(Len(calls))

\* C11 witness: two calls set(s => ({count: s.count + 1})) have returned
\* and count is 2
C11_Witness ==
  /\ Idle
  /\ outcome = "returned"
  /\ calls = <<"inc", "inc">>
  /\ heap[get.v].count = Num(2)

C13_RegistryIsMountedConsumers ==
  /\ Members(subscribers) \cap Consumers = {c \in Consumers : Mounted(c)}
  /\ \A i, j \in DOMAIN subscribers :
       (subscribers[i] = subscribers[j] /\ subscribers[i] \in Consumers)
         => i = j

\* C13 witness: after set calls both consumers, once mounted under the
\* Provider, are unmounted and the registry is empty
C13_Witness ==
  /\ Idle
  /\ Len(calls) = MaxSets
  /\ \A c \in Consumers :
       cons[c].status = "unmounted" /\ cons[c].context = "store"
  /\ subscribers = << >>

C15_StoresAreIndependent ==
  [][/\ \A p \in Activations :
          ProviderActivates(p) =>
            /\ stores'[p].data = initialState
            /\ Struct(heap', stores'[p].data, << >>) =
                 Struct(InitialHeap, initialState, << >>)
            /\ stores'[p].subscribers = << >>
            /\ \A q \in Activations \ {p} : stores'[q] = stores[q]
     /\ \A p \in Activations, u \in ProviderUpdates, cb \in CallbackBehaviours :
          ProviderSet(p, u, cb) =>
            /\ \A q \in Activations \ {p} :
                 /\ stores'[q] = stores[q]
                 /\ stores[q].active =>
                      Struct(heap', stores'[q].data, << >>) =
                        Struct(heap, stores[q].data, << >>)
            /\ \A i \in DOMAIN stores'[p].invoked :
                 stores'[p].invoked[i] \in Members(stores[p].subscribers)
            /\ data' = data
            /\ subscribers' = subscribers]_vars

\* C15 witness: one store has been updated and has notified its listener,
\* the other is at the initial state with the same listener registered and
\* not invoked
C15_Witness ==
  \E p, q \in Activations :
    /\ Len(calls) = MaxSets
    /\ stores[p].active
    /\ heap[stores[p].data.v].count # Num(0)
    /\ heap[stores[p].data.v].user # Ref(1)
    /\ stores[p].invoked = <<"r1">>
    /\ stores[q].active
    /\ stores[q].data = initialState
    /\ Struct(heap, stores[q].data, << >>) =
         Struct(InitialHeap, initialState, << >>)
    /\ stores[q].subscribers = <<"r1">>
    /\ stores[q].invoked = << >>

(* ---------------------------- the callback ----------------------------- *)

\* the objects a value reaches
RECURSIVE Reach(_, _)
Reach(h, x) ==
  IF IsRef(x)
    THEN {x.v} \cup UNION {Reach(h, h[x.v][f]) : f \in DOMAIN h[x.v]}
    ELSE {}

\* C16: the argument of updateContextCallback reaches no object that the
\* state reaches, and whatever the callback assigns to its argument, at
\* the top or in a nested object, the state get() returns after the set
\* call is the shallow merge the call installed and no object that existed
\* before the call, a projection delivered to a consumer among them, has
\* changed
C16_CallbackGetsDeepCopy ==
  [][\A p \in Activations, u \in ProviderUpdates, cb \in CallbackBehaviours :
       (hasCallback /\ ProviderSet(p, u, cb)) =>
         /\ Reach(heap', cbLog'[Len(cbLog')]) \cap
              Reach(heap', stores'[p].data) = {}
         /\ Struct(heap', stores'[p].data, << >>) =
              ShallowMerge(Struct(heap, stores[p].data, << >>),
                           UpdateStruct(u, Struct(heap, stores[p].data, << >>)))
         /\ \A i \in DOMAIN heap : heap'[i] = heap[i]]_vars

\* C16 witness: the callback has assigned 9 to count and to user.n of its
\* argument, and the state holds the count and the user.n the set calls
\* installed
C16_Witness ==
  \E p \in Activations :
    /\ hasCallback
    /\ calls = <<"userN", "inc">>
    /\ stores[p].active
    /\ heap[cbLog[Len(cbLog)].v].count = Num(9)
    /\ heap[heap[cbLog[Len(cbLog)].v].user.v].n = Num(9)
    /\ heap[stores[p].data.v].count = Num(1)
    /\ heap[heap[stores[p].data.v].user.v].n = Num(1)

(* ------------------------ subscribing twice ----------------------------- *)

Occurrences(seq, x) == Cardinality({i \in DOMAIN seq : seq[i] = x})

\* C17: a callback that was passed to subscribe once, twice or more often
\* and not unsubscribed since is held once in the registry, and every set
\* call invokes it exactly once
C17_ListenersDeduplicated ==
  [][/\ \A p \in Activations, l \in ProviderListeners :
          /\ ProviderSubscribe(p, l) =>
               Occurrences(stores'[p].subscribers, l) = 1
          /\ l \in Members(stores'[p].subscribers) =>
               Occurrences(stores'[p].subscribers, l) = 1
     /\ \A p \in Activations, u \in ProviderUpdates, cb \in CallbackBehaviours :
          ProviderSet(p, u, cb) =>
            \A l \in ProviderListeners :
              l \in Members(stores[p].subscribers) =>
                Occurrences(stores'[p].invoked, l) = 1]_vars

\* C17 witness: r1 was passed to subscribe twice, the registry holds it
\* once and the set call made after that has invoked it once
C17_Witness ==
  \E p \in Activations :
    /\ stores[p].asked["r1"] = 2
    /\ stores[p].subscribers = <<"r1">>
    /\ stores[p].invoked = <<"r1">>

(* ------------------------------ nested set calls ------------------------ *)

\* C18: a set call made by a listener inside a walk is executed at once,
\* as a call in progress above the one whose walk invoked the listener, and
\* replaces the state by the shallow merge of the state it meets with its
\* update; and when an outermost set call returns, no call is in progress
\* any more and the state is the initial state shallow-merged with the
\* updates of all calls made, in the order in which they were made
C18_ReentrantSetRuns ==
  [][/\ \A r \in RawListeners, u \in NestedUpdates :
          ListenerSets(r, u) =>
            /\ Len(stack') = Len(stack) + 1
            /\ stack'[Len(stack')].newData = u
            /\ get' = stack'[Len(stack')].installed
            /\ get' # get
            /\ Struct(heap', get', << >>) =
                 ShallowMerge(Struct(heap, get, << >>),
                              UpdateStruct(u, Struct(heap, get, << >>)))
     /\ (stack # << >> /\ stack' = << >> /\ outcome' = "returned") =>
          /\ Len(stack) = 1
          /\ Struct(heap', get', << >>) =
               MergeAll(Struct(InitialHeap, initialState, << >>), calls')]_vars

\* C18 witness: the walk of set({name: 1}) invoked a listener that called
\* set(s => ({count: s.count + 1})); the inner call has returned, the outer
\* walk is over and the state holds both updates
C18_Witness ==
  /\ Len(stack) = 1
  /\ WalkOver
  /\ Top.reentered
  /\ Top.newData = "name1"
  /\ calls = <<"name1", "inc">>
  /\ get # Top.installed
  /\ heap[get.v].name = Num(1)
  /\ heap[get.v].count = Num(1)

\* C19 as claimed: every invocation of updateContextCallback receives the
\* snapshot of the state that the set call invoking it installed, nested
\* set calls included: its argument has the structure of the JSON document
\* of that state
C19_Claimed ==
  [][Len(cbLog') > Len(cbLog) =>
       Struct(heap', cbLog'[Len(cbLog')], << >>) =
         JsonStringify(heap, Top.installed, << >>)]_vars

(* ------------------------ the identity of the state --------------------- *)

C21_RemovedListenerNotInvoked ==
  [][/\ \A r \in RawListeners, x \in RawListeners :
          ListenerUnsubscribes(r, x) => x \notin Members(subscribers')
     /\ \A l \in Listeners :
          l \notin Members(subscribers) =>
            \A i \in DOMAIN stack \cap DOMAIN stack' :
              stack'[i].called[l] = stack[i].called[l]]_vars

\* C21 witness: r1 and r2 were registered when set was called; r1, invoked
\* first, removed r2, and the walk is over without r2 having been invoked
C21_Witness ==
  /\ WalkOver
  /\ Len(stack) = 1
  /\ Top.registered = {"r1", "r2"}
  /\ subscribers = <<"r1", Deleted>>
  /\ Top.called["r1"] = 1
  /\ Top.called["r2"] = 0

(* ------------------------- the fallback projection ---------------------- *)

\* C22: the projection a consumer is rendered with before it reads the
\* store is its selector applied to the factory's initialState, for every
\* selector, and is the value, down to the structure of a selected object,
\* that the selector gave on initialState before any set call was made
C22_FallbackIsInitialProjection ==
  [][\A c \in Consumers, s \in Selectors :
       Hydrate(c, s) =>
         /\ cons'[c].value = Select(s, InitialHeap, initialState)
         /\ Struct(heap', cons'[c].value, << >>) =
              Struct(InitialHeap, Select(s, InitialHeap, initialState), << >>)]_vars

\* C22 witness: the only set call wrote count 1 and ended with the error of
\* the listener registered ahead of the consumer, which was hydrated after
\* that: it shows count 0 of initialState and its re-render is scheduled
C22_Witness ==
  \E c \in Consumers :
    /\ Idle
    /\ calls = <<"count1">>
    /\ outcome = "threw"
    /\ subscribers = <<"r1", c>>
    /\ heap[get.v].count = Num(1)
    /\ Mounted(c)
    /\ cons[c].selector = "count"
    /\ cons[c].value = Num(0)
    /\ cons[c].dirty

(* ------------------------------- errors --------------------------------- *)

\* C23: when a listener throws during a walk, the outermost caller of set
\* gets the error and no set call is in progress any more, so that no
\* further listener is invoked for it; the state stays the one the set
\* calls installed, the shallow merge of all updates so far; and the
\* callback is not invoked: neither in that step nor later without a new
\* set call, a callback being invoked only by a set call in progress
C23_ListenerErrorPropagates ==
  [][/\ \A r \in RawListeners :
          ListenerThrows(r) =>
            /\ outcome' = "threw"
            /\ stack' = << >>
            /\ data' = data
            /\ Struct(heap', get', << >>) =
                 MergeAll(Struct(InitialHeap, initialState, << >>), calls)
            /\ cbLog' = cbLog
            /\ errLog' = errLog
     /\ Len(cbLog') > Len(cbLog) => stack # << >>]_vars

\* C23 witness: a callback was given, the only set call wrote count 1 and
\* ended with a listener's error: the state holds count 1 and the callback
\* has not been invoked
C23_Witness ==
  /\ Idle
  /\ hasCallback
  /\ outcome = "threw"
  /\ calls = <<"count1">>
  /\ subscribers = <<"r1", "r2">>
  /\ heap[get.v].count = Num(1)
  /\ cbLog = << >>

\* C24: a set call whose function throws, made by a caller or by a
\* listener, ends with that error and leaves the state reference, every
\* object, the registry and the callback's log as they were; such a call
\* never gets to replace the state or to start a walk, so it invokes no
\* listener
C24_ThrowingUpdateChangesNothing ==
  [][/\ \A u \in Updates :
          SetCallThrows(u) =>
            /\ outcome' = "threw"
            /\ data' = data
            /\ heap' = heap
            /\ subscribers' = subscribers
            /\ stack' = << >>
            /\ cbLog' = cbLog
     /\ \A r \in RawListeners, u \in NestedUpdates :
          ListenerSetsThrows(r, u) =>
            /\ outcome' = "threw"
            /\ data' = data
            /\ heap' = heap
            /\ cbLog' = cbLog
     /\ \A i \in DOMAIN stack' : stack'[i].newData # "boom"
     /\ \A i \in DOMAIN calls' : calls'[i] # "boom"]_vars

\* C24 witness: set({count: 1}) returned and its callback ran; the set
\* call made after it threw from its function, and the state, the registry
\* and the callback's log are those the first call left
C24_Witness ==
  /\ Idle
  /\ hasCallback
  /\ outcome = "threw"
  /\ calls = <<"count1">>
  /\ Len(cbLog) = 1
  /\ subscribers = <<"r1">>
  /\ heap[get.v].count = Num(1)
  /\ get = Ref(3)

(* ----------------------- nested walks, order of effects ------------------ *)

C26_StateThenListenersThenCallback ==
  [][/\ \A l \in Listeners, i \in DOMAIN stack \cap DOMAIN stack' :
          stack'[i].called[l] > stack[i].called[l] =>
            /\ stack[i].installed.v \in DOMAIN heap
            /\ get.v >= stack[i].installed.v
            /\ Len(cbLog') = Len(cbLog)
     /\ Len(cbLog') > Len(cbLog) =>
          /\ stack # << >>
          /\ NextEntry(subscribers, Top.idx) > Len(subscribers)
          /\ \A l \in Members(subscribers) : Top.called[l] >= 1
          /\ Len(stack') < Len(stack)]_vars

\* C26 witness: set replaced the state and has invoked both registered
\* listeners, and the callback, which was given, has not been invoked yet
C26_Witness ==
  /\ hasCallback
  /\ WalkOver
  /\ Len(stack) = 1
  /\ Len(calls) = 1
  /\ get = Top.installed
  /\ Top.registered = {"r1", "r2"}
  /\ \A l \in RawListeners : Top.called[l] = 1
  /\ cbLog = << >>

(* ----------------------- capabilities, get, subscribe ------------------- *)

\* C27: a capability removes its callback from the registry and nothing
\* else, however many subscribe calls were made for the callback and
\* however many of their capabilities are still outstanding; invoked for a
\* callback that is not in the registry it leaves the registry as it is;
\* and a set call invokes no callback that is not in the registry
C27_UnsubscribeByIdentity ==
  [][/\ \A p \in Activations, l \in ProviderListeners :
          ProviderUnsubscribe(p, l) =>
            /\ l \notin Members(stores'[p].subscribers)
            /\ Members(stores'[p].subscribers) =
                 Members(stores[p].subscribers) \ {l}
            /\ l \notin Members(stores[p].subscribers) =>
                 stores'[p].subscribers = stores[p].subscribers
            /\ stores'[p].data = stores[p].data
     /\ \A p \in Activations, u \in ProviderUpdates, cb \in CallbackBehaviours :
          ProviderSet(p, u, cb) =>
            \A l \in ProviderListeners :
              l \notin Members(stores[p].subscribers) =>
                Occurrences(stores'[p].invoked, l) = 0]_vars

\* C27 witness: r1 was subscribed twice and one of the two capabilities
\* was invoked: the registry is empty, and the store has seen a set call
C27_Witness ==
  \E p \in Activations :
    /\ stores[p].active
    /\ stores[p].asked["r1"] = 2
    /\ stores[p].subscribers = << >>
    /\ stores[p].data # initialState

\* C28: subscribe and a capability, called between set calls or by a
\* listener during a walk, leave the state, its objects, the log of the
\* callback and the console alone, start no set call and invoke no
\* listener (the listener that calls them is the only one invoked in that
\* step); get is a read of the reference, which no step but the entry of a
\* set call changes, and the members of the registry are changed by no
\* step but subscribe and a capability
C28_ReadersHaveNoEffect ==
  [][/\ \A r \in RawListeners :
          (Subscribe(r) \/ Unsubscribe(r)) =>
            /\ data' = data
            /\ heap' = heap
            /\ cbLog' = cbLog
            /\ errLog' = errLog
            /\ calls' = calls
            /\ stack' = stack
     /\ \A r, x \in RawListeners :
          (ListenerSubscribes(r, x) \/ ListenerUnsubscribes(r, x)) =>
            /\ data' = data
            /\ heap' = heap
            /\ cbLog' = cbLog
            /\ errLog' = errLog
            /\ calls' = calls
            /\ Len(stack') = Len(stack)
            /\ \A i \in DOMAIN stack, l \in Listeners \ {r} :
                 stack'[i].called[l] = stack[i].called[l]
     /\ calls' = calls =>
          /\ get' = get
          /\ Struct(heap', get', << >>) = Struct(heap, get, << >>)
     /\ Members(subscribers') # Members(subscribers) =>
          \/ \E r \in RawListeners : Subscribe(r) \/ Unsubscribe(r)
          \/ \E r, x \in RawListeners :
               ListenerSubscribes(r, x) \/ ListenerUnsubscribes(r, x)]_vars

\* C28 witness: two listeners were subscribed and one of them removed
\* again around one set call, whose state is in place and which is the
\* only call the callback has seen
C28_Witness ==
  /\ Idle
  /\ hasCallback
  /\ caps = {"r1", "r2"}
  /\ Members(subscribers) = {"r2"}
  /\ Len(calls) = 1
  /\ Len(cbLog) = 1
  /\ data # initialState

(* ------------------------- no write in place ---------------------------- *)

\* C29: no step writes to an object that exists: every object of the heap,
\* and so every state object a store has held and the object given to the
\* factory, keeps its properties and their values through every set call
\* on every store, and the factory's object has the values it started with
C29_StateObjectsNeverWritten ==
  [][/\ \A i \in DOMAIN heap : i \in DOMAIN heap' /\ heap'[i] = heap[i]
     /\ heap'[initialState.v] = InitialHeap[initialState.v]
     /\ \A p \in Activations, u \in ProviderUpdates, cb \in CallbackBehaviours :
          ProviderSet(p, u, cb) =>
            /\ stores'[p].data.v \notin DOMAIN heap
            /\ Struct(heap', stores[p].data, << >>) =
                 Struct(heap, stores[p].data, << >>)]_vars

\* C29 witness: the set calls the bound allows have been made, a store
\* holds a state whose count and user differ from the factory's, a second
\* store has been updated too, and a callback has written to its copy
C29_Witness ==
  \E p, q \in Activations :
    /\ p # q
    /\ Len(calls) = MaxSets
    /\ hasCallback
    /\ stores[p].active /\ stores[q].active
    /\ heap[stores[p].data.v].count # heap[initialState.v].count
    /\ heap[stores[q].data.v].user # heap[initialState.v].user
    /\ \E i \in DOMAIN heap :
         "count" \in DOMAIN heap[i] /\ heap[i].count = Num(9)

(* ------------------------------ termination ----------------------------- *)

\* C30 as claimed: with the set calls bounded, every set call in progress
\* comes to its end
C30_Claimed == ~Idle ~> Idle

\* C30: with the set calls bounded, every set call in progress comes to its
\* end, by return or by an error that leaves it, unless listeners go on for
\* ever moving themselves behind the position of the walk
C30_SetTerminates ==
  \/ []<><<\E r \in RawListeners : ListenerResubscribes(r)>>_vars
  \/ (~Idle ~> Idle)

\* C30 witness: a set call made by a listener and the call around it have
\* come to their end by return, with listeners in the registry
C30_Witness ==
  /\ Idle
  /\ outcome = "returned"
  /\ Len(calls) = MaxSets
  /\ calls[Len(calls)] = "inc"
  /\ Members(subscribers) = RawListeners

====
